---- MODULE Spec2Model ----
(***************************************************************************)
(* Model of insider_threat_system.py: the risk scorer, the alert / case   *)
(* lifecycle, the automated-action gate and the audit log.                *)
(*                                                                         *)
(* Numbers.  The program computes with floats.  The model uses integers   *)
(* on fixed scales chosen so that every product and quotient the code     *)
(* forms on the modelled inputs is exact:                                 *)
(*   score, threshold, contributions : ScoreOne  = 1.0                    *)
(*   sentiment                       : SentOne   = 1.0                    *)
(*   off_hours_activity              : OffOne    = 1.0                    *)
(*   lexicon polarity                : LexOne    = 1.0                    *)
(*                                                                         *)
(* Text.  A message is the list of words text.split() yields; a word is a *)
(* sequence of one-character strings, so that strip() and lower() are     *)
(* computed, not assumed.                                                  *)
(*                                                                         *)
(* Control.  Tk runs one callback at a time, but messagebox.show*() and   *)
(* askyesno() run a nested event loop until the dialog is dismissed: the  *)
(* dialog grabs input (no other button can be pressed) while "after"     *)
(* timers still fire.  pc records the handler that is blocked in its       *)
(* dialog; while pc is not "idle" only simulation_loop and the            *)
(* continuation of the blocked handler can run.                           *)
(***************************************************************************)
EXTENDS Integers, Sequences, FiniteSets, TLC

\* ------------------------------------------------------------------ bounds
MaxAlerts == 3
MaxCases == 2
MaxAudit == 3
MaxDownloads == 60
MaxProcesses == 6
MaxDrills == 1
MaxWords == 3

\* ------------------------------------------------------------------ scales
ScoreOne == 30000
SentOne == 600
OffOne == 10
LexOne == 10

DEFAULT_THRESHOLD == (65 * ScoreOne) \div 100

\* clock readings of time.time()*1000 the model distinguishes
ClockReadings == {0, 1}

None == "None"

MOCK_USERS == {"u001", "u002"}

Remediation == {"isolate_endpoint", "lock_account"}

\* ------------------------------------------------------------ pure helpers
Min(a, b) == IF a < b THEN a ELSE b
Max(a, b) == IF a > b THEN a ELSE b

UpperCase ==
    << "A","B","C","D","E","F","G","H","I","J","K","L","M",
       "N","O","P","Q","R","S","T","U","V","W","X","Y","Z" >>
LowerCase ==
    << "a","b","c","d","e","f","g","h","i","j","k","l","m",
       "n","o","p","q","r","s","t","u","v","w","x","y","z" >>

\* str.lower() on one character
lower_char(c) ==
    IF \E k \in 1..26 : UpperCase[k] = c
    THEN LowerCase[CHOOSE k \in 1..26 : UpperCase[k] = c]
    ELSE c

\* the argument of w.strip(".,!?;:")
StripChars == {".", ",", "!", "?", ";", ":"}

RECURSIVE lstrip(_)
lstrip(w) ==
    IF w # <<>> /\ Head(w) \in StripChars THEN lstrip(Tail(w)) ELSE w

RECURSIVE rstrip(_)
rstrip(w) ==
    IF w # <<>> /\ w[Len(w)] \in StripChars
    THEN rstrip(SubSeq(w, 1, Len(w) - 1))
    ELSE w

\* w.strip(".,!?;:").lower()
normalize_word(w) ==
    LET s == rstrip(lstrip(w))
    IN  [k \in 1..Len(s) |-> lower_char(s[k])]

SENTIMENT_LEXICON ==
    (<<"b","a","d">> :> -10) @@
    (<<"a","n","g","r","y">> :> -10) @@
    (<<"h","a","t","e">> :> -10) @@
    (<<"s","u","s","p","i","c","i","o","u","s">> :> -10) @@
    (<<"c","o","n","c","e","r","n">> :> -5) @@
    (<<"s","o","r","r","y">> :> -3) @@
    (<<"h","e","l","p">> :> -2) @@
    (<<"t","h","a","n","k","s">> :> 5) @@
    (<<"g","r","e","a","t">> :> 7) @@
    (<<"o","k">> :> 1) @@
    (<<"u","r","g","e","n","t">> :> -5) @@
    (<<"i","m","m","e","d","i","a","t","e","l","y">> :> -4) @@
    (<<"s","t","r","e","s","s","e","d">> :> -8) @@
    (<<"h","a","p","p","y">> :> 8)

\* the loop of sentiment_score: <<s, count>> over the normalized words
RECURSIVE lexicon_sum(_)
lexicon_sum(words) ==
    IF words = <<>> THEN <<0, 0>>
    ELSE LET rest == lexicon_sum(Tail(words))
             w == Head(words)
         IN  IF w \in DOMAIN SENTIMENT_LEXICON
             THEN <<rest[1] + SENTIMENT_LEXICON[w], rest[2] + 1>>
             ELSE rest

\* variant: the sum is divided by the number of all words of the text
sentiment_score_all_words(text) ==
    LET words == [k \in 1..Len(text) |-> normalize_word(text[k])]
        sc == lexicon_sum(words)
        s == sc[1]
        count == sc[2]
    IN  IF words = <<>> THEN 0
        ELSE IF count = 0 THEN 0
        ELSE LET score == (s * (SentOne \div LexOne)) \div Max(1, Len(words))
             IN  Max(-SentOne, Min(SentOne, score))

sentiment_score(text) ==
    LET words == [k \in 1..Len(text) |-> normalize_word(text[k])]
        sc == lexicon_sum(words)
        s == sc[1]
        count == sc[2]
    IN  IF words = <<>> THEN 0
        ELSE IF count = 0 THEN 0
        ELSE LET score == (s * (SentOne \div LexOne)) \div Max(1, count)
             IN  Max(-SentOne, Min(SentOne, score))

\* min(1.0, downloads / 50.0) in fiftieths and min(1.0, unusual / 5.0) in
\* fifths
DownloadsOne == 50
ProcessesOne == 5
downloads_norm(f) == Min(DownloadsOne, f.file_downloads_last_24h)
unusual_norm(f) == Min(ProcessesOne, f.unusual_processes)

\* variant: the download boost is given up to the cap of 50 downloads only
contributions_boost_band(f) ==
    LET sent_risk == Max(0, -f.sentiment)
        b1 == IF f.file_downloads_last_24h > 30
                 /\ f.file_downloads_last_24h <= DownloadsOne
              THEN (12 * ScoreOne) \div 100 ELSE 0
        b2 == IF f.off_hours_activity * 10 > 6 * OffOne
                 /\ sent_risk * 10 > 3 * SentOne
              THEN (10 * ScoreOne) \div 100 ELSE 0
        b3 == IF f.usb_activity # 0 /\ f.file_downloads_last_24h > 10
              THEN (8 * ScoreOne) \div 100 ELSE 0
    IN  [ off_hours_activity |->
              (30 * ScoreOne * f.off_hours_activity) \div (100 * OffOne),
          file_downloads |->
              (25 * ScoreOne * downloads_norm(f)) \div (100 * DownloadsOne),
          sentiment |-> (-20 * ScoreOne * f.sentiment) \div (100 * SentOne),
          usb_activity |->
              IF f.usb_activity # 0 THEN (12 * ScoreOne) \div 100 ELSE 0,
          unusual_processes |->
              (13 * ScoreOne * unusual_norm(f)) \div (100 * ProcessesOne),
          anomaly_boost |-> b1 + b2 + b3 ]

\* variant: the download boost is given from 30 downloads on
contributions_boost_inclusive(f) ==
    LET sent_risk == Max(0, -f.sentiment)
        b1 == IF f.file_downloads_last_24h >= 30
              THEN (12 * ScoreOne) \div 100 ELSE 0
        b2 == IF f.off_hours_activity * 10 > 6 * OffOne
                 /\ sent_risk * 10 > 3 * SentOne
              THEN (10 * ScoreOne) \div 100 ELSE 0
        b3 == IF f.usb_activity # 0 /\ f.file_downloads_last_24h > 10
              THEN (8 * ScoreOne) \div 100 ELSE 0
    IN  [ off_hours_activity |->
              (30 * ScoreOne * f.off_hours_activity) \div (100 * OffOne),
          file_downloads |->
              (25 * ScoreOne * downloads_norm(f)) \div (100 * DownloadsOne),
          sentiment |-> (-20 * ScoreOne * f.sentiment) \div (100 * SentOne),
          usb_activity |->
              IF f.usb_activity # 0 THEN (12 * ScoreOne) \div 100 ELSE 0,
          unusual_processes |->
              (13 * ScoreOne * unusual_norm(f)) \div (100 * ProcessesOne),
          anomaly_boost |-> b1 + b2 + b3 ]

\* the five weighted terms and the boost of compute_risk, on the ScoreOne
\* scale: 0.30*off, 0.25*min(1,d/50), -0.20*sent, 0.12*usb, 0.13*min(1,u/5)
contributions(f) ==
    LET sent_risk == Max(0, -f.sentiment)
        b1 == IF f.file_downloads_last_24h > 30
              THEN (12 * ScoreOne) \div 100 ELSE 0
        b2 == IF f.off_hours_activity * 10 > 6 * OffOne
                 /\ sent_risk * 10 > 3 * SentOne
              THEN (10 * ScoreOne) \div 100 ELSE 0
        b3 == IF f.usb_activity # 0 /\ f.file_downloads_last_24h > 10
              THEN (8 * ScoreOne) \div 100 ELSE 0
    IN  [ off_hours_activity |->
              (30 * ScoreOne * f.off_hours_activity) \div (100 * OffOne),
          file_downloads |->
              (25 * ScoreOne * downloads_norm(f)) \div (100 * DownloadsOne),
          sentiment |-> (-20 * ScoreOne * f.sentiment) \div (100 * SentOne),
          usb_activity |->
              IF f.usb_activity # 0 THEN (12 * ScoreOne) \div 100 ELSE 0,
          unusual_processes |->
              (13 * ScoreOne * unusual_norm(f)) \div (100 * ProcessesOne),
          anomaly_boost |-> b1 + b2 + b3 ]

\* variant: the score is capped at 1.0 and has no floor
compute_risk_no_floor(f) ==
    LET c == contributions(f)
        base == c.off_hours_activity + c.file_downloads + c.sentiment
                + c.usb_activity + c.unusual_processes
        score == base + c.anomaly_boost
    IN  Min(ScoreOne, score)

compute_risk(f) ==
    LET c == contributions(f)
        base == c.off_hours_activity + c.file_downloads + c.sentiment
                + c.usb_activity + c.unusual_processes
        score == base + c.anomaly_boost
    IN  Max(0, Min(ScoreOne, score))

\* ------------------------------------------------------------------ inputs
TextHappy ==
    << <<"H","a","p","p","y">>, <<"t","o">>, <<"f","i","n","i","s","h">>,
       <<"t","h","e">>, <<"t","a","s","k">> >>
TextSuspicious ==
    << <<"S","u","s","p","i","c","i","o","u","s">>,
       <<"a","c","t","i","v","i","t","y">>,
       <<"s","p","o","t","t","e","d",",">>,
       <<"p","l","e","a","s","e">>, <<"c","h","e","c","k">> >>
\* the messages the model follows; an event holds the position of its
\* message in this list
texts == << TextHappy, TextSuspicious >>

\* sentiment_score of each message
text_sentiment == [k \in DOMAIN texts |-> sentiment_score(texts[k])]

\* outcomes of the random draws of simulate_event the model follows:
\* a quiet event (score 0.0) and one that saturates the score (1.0)
SimDraws ==
    { [user_id |-> "u001", user_name |-> "Alice", dept |-> "Engineering",
       off_hours_activity |-> 1,
       file_downloads_last_24h |-> 0, usb_activity |-> 0,
       unusual_processes |-> 0, message |-> 1],
      [user_id |-> "u002", user_name |-> "Bob", dept |-> "Finance",
       off_hours_activity |-> 8,
       file_downloads_last_24h |-> 40, usb_activity |-> 1,
       unusual_processes |-> 3, message |-> 2] }

\* positions of the threshold slider the model follows
Thresholds == {DEFAULT_THRESHOLD, ScoreOne}

\* ------------------------------------------------------------------- state
VARIABLES
    EVENT_STORE,            \* list of event records
    ALERTS,                 \* list of alert records
    CASES,                  \* list of case records
    AUDIT_LOG,              \* list of audit entries
    auto_action_enabled,    \* the "Enable Auto Remediation" checkbox
    auto_threshold,         \* the threshold slider
    clock,                  \* current reading of time.time()*1000
    pc,                     \* the handler blocked in a dialog, and its locals
    lastOp,                 \* the handler that ran last and what it reported
    probe,                  \* the last direct calls of compute_risk:
                            \* their arguments and what they returned
    USER_POINTS,            \* points of each analyst
    BADGES,                 \* badges of each analyst
    scored                  \* the last direct call of sentiment_score: its
                            \* argument and what it returned

vars == << EVENT_STORE, ALERTS, CASES, AUDIT_LOG, auto_action_enabled,
           auto_threshold, clock, pc, lastOp, probe, USER_POINTS, BADGES,
           scored >>

stores == << EVENT_STORE, ALERTS, CASES, AUDIT_LOG >>
settings == << auto_action_enabled, auto_threshold >>
gamify == << USER_POINTS, BADGES >>

Idle == [at |-> "idle", alert |-> 0]

\* features.get(name, default) of compute_risk on an empty dict
NoFeatures ==
    [ off_hours_activity |-> 0, file_downloads_last_24h |-> 0,
      sentiment |-> 0, usb_activity |-> 0, unusual_processes |-> 0 ]

\* no call of compute_risk yet
NoCall ==
    [ called |-> FALSE, features |-> NoFeatures, score |-> 0,
      contributions |-> contributions(NoFeatures) ]

\* what a client holds of its calls of compute_risk: the last call and the
\* call before it
NoProbe ==
    [ called |-> FALSE, features |-> NoFeatures, score |-> 0,
      contributions |-> contributions(NoFeatures), before |-> NoCall ]

Init ==
    /\ EVENT_STORE = <<>>
    /\ ALERTS = <<>>
    /\ CASES = <<>>
    /\ AUDIT_LOG = <<>>
    /\ auto_action_enabled = FALSE
    /\ auto_threshold = DEFAULT_THRESHOLD
    /\ clock = 0
    /\ pc = [at |-> "main", alert |-> 0]
    /\ lastOp = [op |-> "other", target |-> 0, result |-> "none", count |-> 0]
    /\ probe = NoProbe
    /\ USER_POINTS = [u \in MOCK_USERS |-> 0]
    /\ BADGES = [u \in MOCK_USERS |-> {}]
    /\ scored = [called |-> FALSE, text |-> <<>>, result |-> 0]

\* datetime.now().strftime("%Y-%m-%d %H:%M:%S"): the clock to the second
now_ts == clock \div 1000

\* --------------------------------------------------- events, alerts, audit
\* the outcomes of random.randint(100,999) and random.randint(10,99) the
\* model follows.  Two ids made in one millisecond are equal exactly when
\* the draws are equal; ids with different draws behave as ids made at
\* different clock readings do.
EventSuffix == 100
AlertSuffix == 10

\* the event simulate_event builds from the draws d
new_event(d) ==
    [ event_id |-> <<"ev", clock, EventSuffix>>,
      user_id |-> d.user_id,
      user_name |-> d.user_name,
      dept |-> d.dept,
      timestamp |-> clock,
      off_hours_activity |-> d.off_hours_activity,
      file_downloads_last_24h |-> d.file_downloads_last_24h,
      usb_activity |-> d.usb_activity,
      unusual_processes |-> d.unusual_processes,
      message |-> d.message,
      sentiment |-> text_sentiment[d.message] ]

\* variant: the alert is scored on the newest event of the store
new_alert_newest_scored(events, e) ==
    [ alert_id |-> <<"al", clock, AlertSuffix>>,
      event |-> e,
      score |-> compute_risk(events[Len(events)]),
      contributions |-> contributions(events[Len(events)]),
      status |-> "New",
      created_at |-> clock,
      assigned_to |-> None,
      case_id |-> None ]

\* the alert process_event_to_alert builds for the event at position e
new_alert(events, e) ==
    [ alert_id |-> <<"al", clock, AlertSuffix>>,
      event |-> e,
      score |-> compute_risk(events[e]),
      contributions |-> contributions(events[e]),
      status |-> "New",
      created_at |-> clock,
      assigned_to |-> None,
      case_id |-> None ]

\* the audit entry take_automated_action writes
action_log(alert, action, actor) ==
    [ timestamp |-> now_ts,
      alert_id |-> alert.alert_id,
      action |-> action,
      actor |-> actor,
      score |-> alert.score,
      details |-> <<"Action executed: ", action>> ]

\* variant: an earlier entry for the same alert is replaced, not kept
take_automated_action_dedup(alerts, log, i, action, actor) ==
    [ log |-> Append(SelectSeq(log, LAMBDA e : e.alert_id # alerts[i].alert_id),
                     action_log(alerts[i], action, actor)),
      alerts |-> IF action \in Remediation
                 THEN [alerts EXCEPT ![i].status = "Mitigated"]
                 ELSE alerts ]

\* variant: nothing is logged for an alert that is already Mitigated
take_automated_action_once(alerts, log, i, action, actor) ==
    [ log |-> IF alerts[i].status = "Mitigated"
              THEN log
              ELSE Append(log, action_log(alerts[i], action, actor)),
      alerts |-> IF action \in Remediation
                 THEN [alerts EXCEPT ![i].status = "Mitigated"]
                 ELSE alerts ]

\* variant: only isolate_endpoint counts as a remediation
take_automated_action_isolate_only(alerts, log, i, action, actor) ==
    [ log |-> Append(log, action_log(alerts[i], action, actor)),
      alerts |-> IF action = "isolate_endpoint"
                 THEN [alerts EXCEPT ![i].status = "Mitigated"]
                 ELSE alerts ]

\* variant: the status is written and nothing is logged
take_automated_action_unlogged(alerts, log, i, action, actor) ==
    [ log |-> log,
      alerts |-> IF action \in Remediation
                 THEN [alerts EXCEPT ![i].status = "Mitigated"]
                 ELSE alerts ]

\* variant: a remediated alert's score is reset
take_automated_action_rescored(alerts, log, i, action, actor) ==
    [ log |-> Append(log, action_log(alerts[i], action, actor)),
      alerts |-> IF action \in Remediation
                 THEN [alerts EXCEPT ![i].status = "Mitigated",
                                     ![i].score = 0]
                 ELSE alerts ]

\* take_automated_action on the alert at position i: the new ALERTS and
\* AUDIT_LOG
take_automated_action(alerts, log, i, action, actor) ==
    [ log |-> Append(log, action_log(alerts[i], action, actor)),
      alerts |-> IF action \in Remediation
                 THEN [alerts EXCEPT ![i].status = "Mitigated"]
                 ELSE alerts ]

\* variant: the pipeline does not look at the enable flag
gate_passes_flag_ignored(alert) == alert.score >= auto_threshold

\* variant: a score equal to the threshold does not open the gate
gate_passes_strict(alert) ==
    auto_action_enabled /\ alert.score > auto_threshold

\* the gate of the pipeline (simulation_loop, manual_simulate_event)
gate_passes(alert) ==
    auto_action_enabled /\ alert.score >= auto_threshold

\* variant: a score equal to the threshold does not pass
threshold_met_strict(alert, thr) == alert.score > thr

\* the threshold test of autoremediate
threshold_met(alert, thr) == alert.score >= thr

\* ---------------------------------------------------------- model guards
\* a handler blocked in its dialog appends one audit entry when dismissed
Reserved == IF pc.at \in {"assign_alert", "create_case_from_alert",
                          "manual_simulate_event"} THEN 1 ELSE 0
AuditRoom(n) == Len(AUDIT_LOG) + n + Reserved <= MaxAudit
AlertRoom == Len(ALERTS) < MaxAlerts

\* on_alert_double_click finds the alert by id: the first one with that id
alert_selectable(i) ==
    /\ i \in DOMAIN ALERTS
    /\ \A j \in 1..(i - 1) : ALERTS[j].alert_id # ALERTS[i].alert_id

\* on_case_open finds the case by id: the first one with that id
case_selectable(c) ==
    /\ c \in DOMAIN CASES
    /\ \A j \in 1..(c - 1) : CASES[j].case_id # CASES[c].case_id

Report(op, i, result, n) ==
    lastOp' = [op |-> op, target |-> i, result |-> result, count |-> n]

\* ----------------------------------------------------------------- actions
\* one iteration of the loop of main(): a historical event and its alert
main_seed ==
    /\ pc.at = "main"
    /\ AlertRoom
    /\ \E d \in SimDraws :
          /\ EVENT_STORE' = Append(EVENT_STORE, new_event(d))
          /\ ALERTS' = Append(ALERTS, new_alert(EVENT_STORE', Len(EVENT_STORE')))
    /\ Report("other", 0, "none", 0)
    /\ UNCHANGED << CASES, AUDIT_LOG, settings, clock, pc,
                    probe, gamify, scored >>

\* ITSApp() is constructed and mainloop() starts
main_start ==
    /\ pc.at = "main"
    /\ pc' = Idle
    /\ auto_action_enabled' = FALSE
    /\ auto_threshold' = DEFAULT_THRESHOLD
    /\ Report("other", 0, "none", 0)
    /\ UNCHANGED << stores, clock, probe, gamify, scored >>

\* time passes
advance_clock ==
    /\ \E t \in ClockReadings : t > clock /\ clock' = t
    /\ Report("other", 0, "none", 0)
    /\ UNCHANGED << stores, settings, pc, probe, gamify, scored >>

\* the checkbox bound to auto_action_enabled
toggle_auto ==
    /\ pc.at = "idle"
    /\ auto_action_enabled' = ~auto_action_enabled
    /\ Report("other", 0, "none", 0)
    /\ UNCHANGED << stores, auto_threshold, clock, pc, probe, gamify, scored >>

\* the slider bound to auto_threshold
set_threshold ==
    /\ pc.at = "idle"
    /\ \E t \in Thresholds : t # auto_threshold /\ auto_threshold' = t
    /\ Report("other", 0, "none", 0)
    /\ UNCHANGED << stores, auto_action_enabled, clock, pc,
                    probe, gamify, scored >>

\* the timer callback: runs when idle and inside any dialog's event loop
simulation_loop ==
    /\ pc.at # "main"
    /\ AlertRoom
    /\ \E d \in SimDraws :
          LET events == Append(EVENT_STORE, new_event(d))
              alerts == Append(ALERTS, new_alert(events, Len(events)))
              i == Len(alerts)
              r == take_automated_action(alerts, AUDIT_LOG, i,
                                         "isolate_endpoint", "auto-sim")
          IN  /\ EVENT_STORE' = events
              /\ IF gate_passes(alerts[i])
                 THEN /\ AuditRoom(1)
                      /\ ALERTS' = r.alerts
                      /\ AUDIT_LOG' = r.log
                      /\ Report("simulation_loop", i, "taken", 1)
                 ELSE /\ ALERTS' = alerts
                      /\ AUDIT_LOG' = AUDIT_LOG
                      /\ Report("simulation_loop", i, "none", 0)
    /\ UNCHANGED << CASES, settings, clock, pc, probe, gamify, scored >>

\* "Simulate Event": event and alert, then the dialog
manual_simulate_event ==
    /\ pc.at = "idle"
    /\ AlertRoom
    /\ AuditRoom(1)
    /\ \E d \in SimDraws :
          /\ EVENT_STORE' = Append(EVENT_STORE, new_event(d))
          /\ ALERTS' = Append(ALERTS, new_alert(EVENT_STORE', Len(EVENT_STORE')))
    /\ pc' = [at |-> "manual_simulate_event", alert |-> Len(ALERTS')]
    /\ Report("manual_simulate_event", Len(ALERTS'), "dialog", 0)
    /\ UNCHANGED << CASES, AUDIT_LOG, settings, clock, probe, gamify, scored >>

\* the dialog of manual_simulate_event is dismissed: the gate, then refresh
manual_simulate_event_ok ==
    /\ pc.at = "manual_simulate_event"
    /\ LET i == pc.alert
           r == take_automated_action(ALERTS, AUDIT_LOG, i,
                                      "isolate_endpoint", "auto-sim")
       IN  IF gate_passes(ALERTS[i])
           THEN /\ ALERTS' = r.alerts
                /\ AUDIT_LOG' = r.log
                /\ Report("manual_simulate_event_ok", i, "taken", 1)
           ELSE /\ UNCHANGED << ALERTS, AUDIT_LOG >>
                /\ Report("manual_simulate_event_ok", i, "none", 0)
    /\ pc' = Idle
    /\ UNCHANGED << EVENT_STORE, CASES, settings, clock,
                    probe, gamify, scored >>

\* "Flag & Create Alert": a second alert for the first event with the
\* opened message
flag_message_create_alert ==
    /\ pc.at = "idle"
    /\ AlertRoom
    /\ \E e \in DOMAIN EVENT_STORE :
          /\ \A j \in 1..(e - 1) : EVENT_STORE[j].message # EVENT_STORE[e].message
          /\ ALERTS' = Append(ALERTS, new_alert(EVENT_STORE, e))
    /\ Report("other", 0, "none", 0)
    /\ UNCHANGED << EVENT_STORE, CASES, AUDIT_LOG, settings, clock, pc,
                    probe, gamify, scored >>

\* variant: an alert that has an analyst keeps it
assign_alert_keep_first ==
    /\ pc.at = "idle"
    /\ AuditRoom(1)
    /\ \E i \in DOMAIN ALERTS, analyst \in MOCK_USERS :
          /\ alert_selectable(i)
          /\ ALERTS' = [ALERTS EXCEPT
                           ![i].assigned_to =
                               IF @ = None THEN analyst ELSE @,
                           ![i].status = "Triaged"]
          /\ pc' = [at |-> "assign_alert", alert |-> i]
          /\ Report("assign_alert", i, analyst, 0)
    /\ UNCHANGED << EVENT_STORE, CASES, AUDIT_LOG, settings, clock,
                    probe, gamify, scored >>

\* "Assign to Analyst": the alert is written, then the dialog
assign_alert ==
    /\ pc.at = "idle"
    /\ AuditRoom(1)
    /\ \E i \in DOMAIN ALERTS, analyst \in MOCK_USERS :
          /\ alert_selectable(i)
          /\ ALERTS' = [ALERTS EXCEPT ![i].assigned_to = analyst,
                                      ![i].status = "Triaged"]
          /\ pc' = [at |-> "assign_alert", alert |-> i]
          /\ Report("assign_alert", i, analyst, 0)
    /\ UNCHANGED << EVENT_STORE, CASES, AUDIT_LOG, settings, clock,
                    probe, gamify, scored >>

\* variant: only the first assignment of an alert is logged
assign_alert_ok_first_only ==
    /\ pc.at = "assign_alert"
    /\ AUDIT_LOG' =
          IF \E k \in DOMAIN AUDIT_LOG :
                /\ AUDIT_LOG[k].alert_id = ALERTS[pc.alert].alert_id
                /\ AUDIT_LOG[k].action = "assigned"
          THEN AUDIT_LOG
          ELSE Append(AUDIT_LOG,
                      [ timestamp |-> now_ts,
                        alert_id |-> ALERTS[pc.alert].alert_id,
                        action |-> "assigned",
                        actor |-> "gui" ])
    /\ pc' = Idle
    /\ Report("assign_alert_ok", pc.alert, "none", 0)
    /\ UNCHANGED << EVENT_STORE, ALERTS, CASES, settings, clock,
                    probe, gamify, scored >>

\* the dialog of assign_alert is dismissed: the audit entry
assign_alert_ok ==
    /\ pc.at = "assign_alert"
    /\ AUDIT_LOG' = Append(AUDIT_LOG,
                           [ timestamp |-> now_ts,
                             alert_id |-> ALERTS[pc.alert].alert_id,
                             action |-> "assigned",
                             actor |-> "gui" ])
    /\ pc' = Idle
    /\ Report("assign_alert_ok", pc.alert, "none", 0)
    /\ UNCHANGED << EVENT_STORE, ALERTS, CASES, settings, clock,
                    probe, gamify, scored >>

\* variant: the case does not take over the alert's analyst
new_case_unassigned(i) ==
    [ case_id |-> <<"case", clock>>,
      alert_id |-> ALERTS[i].alert_id,
      user_id |-> EVENT_STORE[ALERTS[i].event].user_id,
      user_name |-> EVENT_STORE[ALERTS[i].event].user_name,
      dept |-> EVENT_STORE[ALERTS[i].event].dept,
      score |-> ALERTS[i].score,
      status |-> "Open",
      assigned_to |-> None,
      created_at |-> clock ]

\* the case create_case_from_alert builds for the alert at position i
new_case(i) ==
    [ case_id |-> <<"case", clock>>,
      alert_id |-> ALERTS[i].alert_id,
      user_id |-> EVENT_STORE[ALERTS[i].event].user_id,
      user_name |-> EVENT_STORE[ALERTS[i].event].user_name,
      dept |-> EVENT_STORE[ALERTS[i].event].dept,
      score |-> ALERTS[i].score,
      status |-> "Open",
      assigned_to |-> ALERTS[i].assigned_to,
      created_at |-> clock ]

\* variant: the case is linked and the alert's status is left as it was
create_case_from_alert_keeps_status ==
    /\ pc.at = "idle"
    /\ AuditRoom(1)
    /\ Len(CASES) < MaxCases
    /\ \E i \in DOMAIN ALERTS :
          /\ alert_selectable(i)
          /\ CASES' = Append(CASES, new_case(i))
          /\ ALERTS' = [ALERTS EXCEPT ![i].case_id = new_case(i).case_id]
          /\ pc' = [at |-> "create_case_from_alert", alert |-> i]
          /\ Report("create_case_from_alert", i, "dialog", 0)
    /\ UNCHANGED << EVENT_STORE, AUDIT_LOG, settings, clock,
                    probe, gamify, scored >>

\* "Create Case": the case and the alert are written, then the dialog
create_case_from_alert ==
    /\ pc.at = "idle"
    /\ AuditRoom(1)
    /\ Len(CASES) < MaxCases
    /\ \E i \in DOMAIN ALERTS :
          /\ alert_selectable(i)
          /\ CASES' = Append(CASES, new_case(i))
          /\ ALERTS' = [ALERTS EXCEPT ![i].case_id = new_case(i).case_id,
                                      ![i].status = "Under Investigation"]
          /\ pc' = [at |-> "create_case_from_alert", alert |-> i]
          /\ Report("create_case_from_alert", i, "dialog", 0)
    /\ UNCHANGED << EVENT_STORE, AUDIT_LOG, settings, clock,
                    probe, gamify, scored >>

\* the dialog of create_case_from_alert is dismissed: the audit entry
create_case_from_alert_ok ==
    /\ pc.at = "create_case_from_alert"
    /\ AUDIT_LOG' = Append(AUDIT_LOG,
                           [ timestamp |-> now_ts,
                             alert_id |-> ALERTS[pc.alert].alert_id,
                             action |-> "case_created",
                             actor |-> "gui" ])
    /\ pc' = Idle
    /\ Report("create_case_from_alert_ok", pc.alert, "none", 0)
    /\ UNCHANGED << EVENT_STORE, ALERTS, CASES, settings, clock,
                    probe, gamify, scored >>

\* "Auto-Isolate" on one alert
autoremediate ==
    /\ pc.at = "idle"
    /\ \E i \in DOMAIN ALERTS :
          /\ alert_selectable(i)
          /\ LET r == take_automated_action(ALERTS, AUDIT_LOG, i,
                                            "isolate_endpoint", "auto-system")
             IN  IF ~auto_action_enabled
                 THEN /\ UNCHANGED << ALERTS, AUDIT_LOG >>
                      /\ Report("autoremediate", i, "disabled", 0)
                 ELSE IF threshold_met(ALERTS[i], auto_threshold)
                 THEN /\ AuditRoom(1)
                      /\ ALERTS' = r.alerts
                      /\ AUDIT_LOG' = r.log
                      /\ Report("autoremediate", i, "taken", 1)
                 ELSE /\ UNCHANGED << ALERTS, AUDIT_LOG >>
                      /\ Report("autoremediate", i, "skipped", 0)
    /\ UNCHANGED << EVENT_STORE, CASES, settings, clock, pc,
                    probe, gamify, scored >>

\* variant: the sweep skips Mitigated alerts only
RECURSIVE sweep_from_investigated(_, _, _, _, _)
sweep_from_investigated(alerts, log, thr, k, cnt) ==
    IF k > Len(alerts)
    THEN [alerts |-> alerts, log |-> log, cnt |-> cnt]
    ELSE IF alerts[k].status = "Mitigated"
    THEN sweep_from_investigated(alerts, log, thr, k + 1, cnt)
    ELSE IF alerts[k].score >= thr
    THEN LET r == take_automated_action(alerts, log, k,
                                        "isolate_endpoint", "auto-sweep")
         IN  sweep_from_investigated(r.alerts, r.log, thr, k + 1, cnt + 1)
    ELSE sweep_from_investigated(alerts, log, thr, k + 1, cnt)

\* variant: the sweep acts again on alerts that are already Mitigated
RECURSIVE sweep_from_rescans(_, _, _, _, _)
sweep_from_rescans(alerts, log, thr, k, cnt) ==
    IF k > Len(alerts)
    THEN [alerts |-> alerts, log |-> log, cnt |-> cnt]
    ELSE IF alerts[k].status = "Under Investigation"
    THEN sweep_from_rescans(alerts, log, thr, k + 1, cnt)
    ELSE IF alerts[k].score >= thr
    THEN LET r == take_automated_action(alerts, log, k,
                                        "isolate_endpoint", "auto-sweep")
         IN  sweep_from_rescans(r.alerts, r.log, thr, k + 1, cnt + 1)
    ELSE sweep_from_rescans(alerts, log, thr, k + 1, cnt)

\* the loop of run_auto_sweep from position k on, cnt actions taken so far
RECURSIVE sweep_from(_, _, _, _, _)
sweep_from(alerts, log, thr, k, cnt) ==
    IF k > Len(alerts)
    THEN [alerts |-> alerts, log |-> log, cnt |-> cnt]
    ELSE IF alerts[k].status \in {"Mitigated", "Under Investigation"}
    THEN sweep_from(alerts, log, thr, k + 1, cnt)
    ELSE IF alerts[k].score >= thr
    THEN LET r == take_automated_action(alerts, log, k,
                                        "isolate_endpoint", "auto-sweep")
         IN  sweep_from(r.alerts, r.log, thr, k + 1, cnt + 1)
    ELSE sweep_from(alerts, log, thr, k + 1, cnt)

\* "Run Auto Action Sweep"
run_auto_sweep ==
    /\ pc.at = "idle"
    /\ LET r == sweep_from(ALERTS, AUDIT_LOG, auto_threshold, 1, 0)
       IN  IF ~auto_action_enabled
           THEN /\ UNCHANGED << ALERTS, AUDIT_LOG >>
                /\ Report("run_auto_sweep", 0, "disabled", 0)
           ELSE /\ AuditRoom(r.cnt)
                /\ ALERTS' = r.alerts
                /\ AUDIT_LOG' = r.log
                /\ Report("run_auto_sweep", 0, "complete", r.cnt)
    /\ UNCHANGED << EVENT_STORE, CASES, settings, clock, pc,
                    probe, gamify, scored >>

\* variant: closing the case also closes the linked alert
close_case_closes_alert ==
    /\ pc.at = "idle"
    /\ AuditRoom(1)
    /\ \E c \in DOMAIN CASES :
          /\ case_selectable(c)
          /\ CASES' = [CASES EXCEPT ![c].status = "Closed"]
          /\ ALERTS' = [i \in DOMAIN ALERTS |->
                           IF ALERTS[i].alert_id = CASES[c].alert_id
                           THEN [ALERTS[i] EXCEPT !.status = "Closed"]
                           ELSE ALERTS[i]]
          /\ AUDIT_LOG' = Append(AUDIT_LOG,
                                 [ timestamp |-> now_ts,
                                   alert_id |-> CASES[c].alert_id,
                                   action |-> "case_closed",
                                   actor |-> "analyst" ])
          /\ Report("close_case", c, "closed", 0)
    /\ UNCHANGED << EVENT_STORE, settings, clock, pc, probe, gamify, scored >>

\* variant: a closed case is taken off the list
close_case_deletes ==
    /\ pc.at = "idle"
    /\ AuditRoom(1)
    /\ \E c \in DOMAIN CASES :
          /\ case_selectable(c)
          /\ CASES' = SubSeq(CASES, 1, c - 1)
                       \o SubSeq(CASES, c + 1, Len(CASES))
          /\ AUDIT_LOG' = Append(AUDIT_LOG,
                                 [ timestamp |-> now_ts,
                                   alert_id |-> CASES[c].alert_id,
                                   action |-> "case_closed",
                                   actor |-> "analyst" ])
          /\ Report("close_case", c, "closed", 0)
    /\ UNCHANGED << EVENT_STORE, ALERTS, settings, clock, pc,
                    probe, gamify, scored >>

\* variant: closing the case closes the alert that links to it
close_case_follows_link ==
    /\ pc.at = "idle"
    /\ AuditRoom(1)
    /\ \E c \in DOMAIN CASES :
          /\ case_selectable(c)
          /\ CASES' = [CASES EXCEPT ![c].status = "Closed"]
          /\ ALERTS' = [i \in DOMAIN ALERTS |->
                           IF /\ ALERTS[i].case_id # None
                              /\ ALERTS[i].case_id = CASES[c].case_id
                           THEN [ALERTS[i] EXCEPT !.status = "Closed"]
                           ELSE ALERTS[i]]
          /\ AUDIT_LOG' = Append(AUDIT_LOG,
                                 [ timestamp |-> now_ts,
                                   alert_id |-> CASES[c].alert_id,
                                   action |-> "case_closed",
                                   actor |-> "analyst" ])
          /\ Report("close_case", c, "closed", 0)
    /\ UNCHANGED << EVENT_STORE, settings, clock, pc, probe, gamify, scored >>

\* "Mark Closed" in a case window
close_case ==
    /\ pc.at = "idle"
    /\ AuditRoom(1)
    /\ \E c \in DOMAIN CASES :
          /\ case_selectable(c)
          /\ CASES' = [CASES EXCEPT ![c].status = "Closed"]
          /\ AUDIT_LOG' = Append(AUDIT_LOG,
                                 [ timestamp |-> now_ts,
                                   alert_id |-> CASES[c].alert_id,
                                   action |-> "case_closed",
                                   actor |-> "analyst" ])
          /\ Report("close_case", c, "closed", 0)
    /\ UNCHANGED << EVENT_STORE, ALERTS, settings, clock, pc,
                    probe, gamify, scored >>

\* ---------------------------------------------------------- specifications
Next ==
    \/ main_seed
    \/ main_start
    \/ advance_clock
    \/ toggle_auto
    \/ set_threshold
    \/ simulation_loop
    \/ manual_simulate_event
    \/ manual_simulate_event_ok
    \/ flag_message_create_alert
    \/ assign_alert
    \/ assign_alert_ok
    \/ create_case_from_alert
    \/ create_case_from_alert_ok
    \/ autoremediate
    \/ run_auto_sweep
    \/ close_case

Spec == Init /\ [][Next]_vars

\* a direct call of take_automated_action(alert, action) by a client of the
\* module, with the default actor
ActionKinds == {"isolate_endpoint", "lock_account", "notify_manager"}

call_take_automated_action ==
    /\ pc.at = "idle"
    /\ AuditRoom(1)
    /\ \E i \in DOMAIN ALERTS, action \in ActionKinds :
          LET r == take_automated_action(ALERTS, AUDIT_LOG, i, action, "system")
          IN  /\ ALERTS' = r.alerts
              /\ AUDIT_LOG' = r.log
              /\ Report("take_automated_action", i, action, 1)
    /\ UNCHANGED << EVENT_STORE, CASES, settings, clock, pc,
                    probe, gamify, scored >>

NextApi ==
    \/ main_seed
    \/ main_start
    \/ advance_clock
    \/ assign_alert
    \/ assign_alert_ok
    \/ create_case_from_alert
    \/ create_case_from_alert_ok
    \/ call_take_automated_action

SpecApi == Init /\ [][NextApi]_vars

\* the valid arguments of compute_risk the model follows: every tenth of
\* off_hours_activity, the download counts around the caps and the boost
\* thresholds, sentiments around the boost threshold, and every process
\* count up to the bound
OffInputs == 0..OffOne
DownloadInputs == {0, 10, 11, 30, 31, 40, DownloadsOne, MaxDownloads}
SentimentInputs ==
    { -SentOne, -((8 * SentOne) \div 10), -((4 * SentOne) \div 10),
      -((3 * SentOne) \div 10), 0, (3 * SentOne) \div 10, SentOne }
UsbInputs == {0, 1}
ProcessInputs == 0..MaxProcesses

\* the arguments that differ from f in one feature
OneFeatureChanged(f) ==
    {[f EXCEPT !.off_hours_activity = v] : v \in OffInputs}
    \cup {[f EXCEPT !.file_downloads_last_24h = v] : v \in DownloadInputs}
    \cup {[f EXCEPT !.sentiment = v] : v \in SentimentInputs}
    \cup {[f EXCEPT !.usb_activity = v] : v \in UsbInputs}
    \cup {[f EXCEPT !.unusual_processes = v] : v \in ProcessInputs}

\* a direct call of compute_risk(features) by a client of the module; one
\* call after another changes one feature, which reaches every argument
call_compute_risk ==
    /\ \E f \in OneFeatureChanged(probe.features) :
          probe' = [ called |-> TRUE, features |-> f,
                     score |-> compute_risk(f),
                     contributions |-> contributions(f),
                     before |-> [ called |-> probe.called,
                                  features |-> probe.features,
                                  score |-> probe.score,
                                  contributions |-> probe.contributions ] ]
    /\ Report("compute_risk", 0, "none", 0)
    /\ UNCHANGED << stores, settings, clock, pc, gamify, scored >>

NextRisk == call_compute_risk

SpecRisk == Init /\ [][NextRisk]_vars

\* the features dict process_event_to_alert builds from an event
features_of(ev) ==
    [ off_hours_activity |-> ev.off_hours_activity,
      file_downloads_last_24h |-> ev.file_downloads_last_24h,
      sentiment |-> ev.sentiment,
      usb_activity |-> ev.usb_activity,
      unusual_processes |-> ev.unusual_processes ]

\* the arguments of the calls that are mixed with the handlers: the
\* features of the simulated events
EventFeatures == {features_of(new_event(d)) : d \in SimDraws}

\* variant: the score returned is not below that of the newest alert
call_compute_risk_between_floor ==
    /\ \E f \in EventFeatures :
          probe' = [ called |-> TRUE, features |-> f,
                     score |-> IF ALERTS = <<>> THEN compute_risk(f)
                               ELSE Max(compute_risk(f),
                                        ALERTS[Len(ALERTS)].score),
                     contributions |-> contributions(f),
                     before |-> [ called |-> probe.called,
                                  features |-> probe.features,
                                  score |-> probe.score,
                                  contributions |-> probe.contributions ] ]
    /\ Report("compute_risk", 0, "none", 0)
    /\ UNCHANGED << stores, settings, clock, pc, gamify, scored >>

\* a direct call of compute_risk between any two steps of the program
call_compute_risk_between ==
    /\ \E f \in EventFeatures :
          probe' = [ called |-> TRUE, features |-> f,
                     score |-> compute_risk(f),
                     contributions |-> contributions(f),
                     before |-> [ called |-> probe.called,
                                  features |-> probe.features,
                                  score |-> probe.score,
                                  contributions |-> probe.contributions ] ]
    /\ Report("compute_risk", 0, "none", 0)
    /\ UNCHANGED << stores, settings, clock, pc, gamify, scored >>

NextPure ==
    \/ main_seed
    \/ main_start
    \/ toggle_auto
    \/ simulation_loop
    \/ assign_alert
    \/ assign_alert_ok
    \/ create_case_from_alert
    \/ create_case_from_alert_ok
    \/ autoremediate
    \/ call_compute_risk_between

SpecPure == Init /\ [][NextPure]_vars

\* the words of the texts sentiment_score is called on: lexicon words in
\* upper and lower case with the characters of strip() before and after
\* them, a word that is not in the lexicon, a word of strip() characters
\* only, and a lexicon word with such a character inside
WordInputs ==
    { <<"H","a","p","p","y">>,
      <<"H","A","T","E","!">>,
      <<"o","k",",">>,
      <<"t","e","a","m">>,
      <<".",".",".">>,
      <<"?","S","t","r","e","s","s","e","d",";",":">>,
      <<"o",".","k">>,
      <<"t","h","a","n","k","s">> }

\* a direct call of sentiment_score(text) by a client of the module: on
\* the empty text, or on the text of the last call with one more word
call_sentiment_score ==
    /\ \E text \in {<<>>} \cup {Append(scored.text, w) : w \in WordInputs} :
          /\ Len(text) <= MaxWords
          /\ scored' = [ called |-> TRUE, text |-> text,
                         result |-> sentiment_score(text) ]
    /\ Report("sentiment_score", 0, "none", 0)
    /\ UNCHANGED << stores, settings, clock, pc, probe, gamify >>

NextSentiment == call_sentiment_score

SpecSentiment == Init /\ [][NextSentiment]_vars

\* the triage drill: range(5), score > 0.60, correct * 10, the badge
SandboxSize == 5
SandboxTruth == (60 * ScoreOne) \div 100
PointsPerCorrect == 10
SandboxBadge == "Sandbox Master"

\* outcomes of the draws of simulate_event the drill follows: the two of
\* SimDraws and one whose score is exactly 0.60
SandboxDraws ==
    SimDraws \cup
    { [user_id |-> "u001", user_name |-> "Alice", dept |-> "Engineering",
       off_hours_activity |-> 8, file_downloads_last_24h |-> 12,
       usb_activity |-> 0, unusual_processes |-> 0, message |-> 2] }

\* variant: a score of exactly 0.60 is a true positive
truth_inclusive(alert) == alert.score >= SandboxTruth

\* the ground truth of the drill
truth(alert) == alert.score > SandboxTruth

\* "Start Sandbox": five events and alerts, then the first question
start_sandbox ==
    /\ pc.at = "idle"
    /\ Len(ALERTS) < MaxDrills * SandboxSize
    /\ \E ds \in [1..SandboxSize -> SandboxDraws] :
          LET events == EVENT_STORE
                        \o [k \in 1..SandboxSize |-> new_event(ds[k])]
              alerts == ALERTS
                        \o [k \in 1..SandboxSize |->
                               new_alert(events, Len(EVENT_STORE) + k)]
          IN  /\ EVENT_STORE' = events
              /\ ALERTS' = alerts
    /\ pc' = [ at |-> "start_sandbox", alert |-> Len(ALERTS) + 1,
               last |-> Len(ALERTS) + SandboxSize, correct |-> 0 ]
    /\ Report("start_sandbox", Len(ALERTS) + 1, "dialog", 0)
    /\ UNCHANGED << CASES, AUDIT_LOG, settings, clock, probe, gamify, scored >>

\* a question of the drill is answered and the next one is asked
sandbox_triage ==
    /\ pc.at = "start_sandbox"
    /\ pc.alert < pc.last
    /\ \E ans \in BOOLEAN :
          /\ pc' = [pc EXCEPT !.alert = @ + 1,
                              !.correct = IF ans = truth(ALERTS[pc.alert])
                                          THEN @ + 1 ELSE @]
          /\ Report("sandbox_triage", pc.alert,
                    IF ans THEN "yes" ELSE "no", pc'.correct)
    /\ UNCHANGED << stores, settings, clock, probe, gamify, scored >>

\* the last question is answered: points and badge for a random analyst
sandbox_finish ==
    /\ pc.at = "start_sandbox"
    /\ pc.alert = pc.last
    /\ \E ans \in BOOLEAN, analyst \in MOCK_USERS :
          LET correct == IF ans = truth(ALERTS[pc.alert])
                         THEN pc.correct + 1 ELSE pc.correct
          IN  /\ USER_POINTS' =
                    [USER_POINTS EXCEPT
                        ![analyst] = @ + correct * PointsPerCorrect]
              /\ BADGES' =
                    IF correct = SandboxSize
                    THEN [BADGES EXCEPT ![analyst] = @ \cup {SandboxBadge}]
                    ELSE BADGES
              /\ Report("sandbox_finish", pc.alert,
                        IF ans THEN "yes" ELSE "no", correct)
    /\ pc' = Idle
    /\ UNCHANGED << stores, settings, clock, probe, scored >>

NextSandbox ==
    \/ main_start
    \/ advance_clock
    \/ simulation_loop
    \/ start_sandbox
    \/ sandbox_triage
    \/ sandbox_finish

SpecSandbox == Init /\ [][NextSandbox]_vars

\* ------------------------------------------------------------------ claims
Mitigated(alerts) == {i \in DOMAIN alerts : alerts[i].status = "Mitigated"}

UniqueAlertIds ==
    \A i, j \in DOMAIN ALERTS :
        ALERTS[i].alert_id = ALERTS[j].alert_id => i = j

\* the audit entries of action kind for the alert id
EntriesFor(log, id, kind) ==
    {k \in DOMAIN log : log[k].alert_id = id /\ log[k].action = kind}

C2_DisabledNoEffect ==
    [][ ( /\ ~auto_action_enabled
          /\ lastOp'.op \in {"autoremediate", "run_auto_sweep",
                             "simulation_loop", "manual_simulate_event",
                             "manual_simulate_event_ok"} ) =>
          /\ AUDIT_LOG' = AUDIT_LOG
          /\ Mitigated(ALERTS') = Mitigated(ALERTS)
          /\ lastOp'.result \in {"disabled", "none", "dialog"}
          /\ lastOp'.count = 0
          /\ lastOp'.op \in {"autoremediate", "run_auto_sweep",
                             "manual_simulate_event_ok"} => pc'.at = "idle" ]_vars

\* a sweep was rejected while an alert that meets the threshold is waiting
C2_Witness ==
    /\ ~auto_action_enabled
    /\ lastOp.op = "run_auto_sweep"
    /\ lastOp.result = "disabled"
    /\ \E i \in DOMAIN ALERTS :
          /\ ALERTS[i].score >= auto_threshold
          /\ ALERTS[i].status = "New"

\* C3: an alert's status, once Mitigated, is never New or Triaged in any later
\* state.
C3_MitigatedNeverBack ==
    [][ \A i \in DOMAIN ALERTS :
          ALERTS[i].status = "Mitigated" =>
              ALERTS'[i].status \notin {"New", "Triaged"} ]_vars

\* C4: the audit log is append-only: its length never decreases and the log
\* of any state is a prefix of the log of the next state.
C4_AuditAppendOnly ==
    [][ /\ Len(AUDIT_LOG') >= Len(AUDIT_LOG)
        /\ SubSeq(AUDIT_LOG', 1, Len(AUDIT_LOG)) = AUDIT_LOG ]_vars

\* the log holds entries of a remediation, a second remediation of the same
\* alert and a case closure
C4_Witness ==
    /\ Len(AUDIT_LOG) = 3
    /\ AUDIT_LOG[1].action = "isolate_endpoint"
    /\ AUDIT_LOG[2].action = "isolate_endpoint"
    /\ AUDIT_LOG[2].alert_id = AUDIT_LOG[1].alert_id
    /\ UniqueAlertIds
    /\ AUDIT_LOG[3].action \in {"case_closed", "assigned"}

\* C5: every remediation that passes the gate appends exactly one audit
\* entry, for that alert, also when the alert is already Mitigated, and leaves
\* the alert Mitigated.
C5_OneEntryPerRemediation ==
    [][ ( /\ lastOp'.op \in {"autoremediate", "simulation_loop",
                             "manual_simulate_event_ok"}
          /\ lastOp'.result = "taken" ) =>
          LET i == lastOp'.target
              n == Len(AUDIT_LOG')
          IN  /\ n = Len(AUDIT_LOG) + 1
              /\ SubSeq(AUDIT_LOG', 1, n - 1) = AUDIT_LOG
              /\ AUDIT_LOG'[n].alert_id = ALERTS'[i].alert_id
              /\ AUDIT_LOG'[n].action = "isolate_endpoint"
              /\ ALERTS'[i].status = "Mitigated"
              /\ Cardinality(EntriesFor(AUDIT_LOG', ALERTS'[i].alert_id,
                                        "isolate_endpoint"))
                   = Cardinality(EntriesFor(AUDIT_LOG, ALERTS'[i].alert_id,
                                            "isolate_endpoint")) + 1 ]_vars

\* three passing attempts on one alert have left three entries for it
C5_Witness ==
    /\ lastOp.op = "autoremediate"
    /\ lastOp.result = "taken"
    /\ UniqueAlertIds
    /\ ALERTS[lastOp.target].status = "Mitigated"
    /\ Cardinality(EntriesFor(AUDIT_LOG, ALERTS[lastOp.target].alert_id,
                              "isolate_endpoint")) = 3

\* the alerts a sweep acts on: not Mitigated, not Under Investigation, and
\* with a score that meets the threshold
SweepEligible ==
    {i \in DOMAIN ALERTS :
        /\ ALERTS[i].status \notin {"Mitigated", "Under Investigation"}
        /\ ALERTS[i].score >= auto_threshold}

\* C6: an enabled sweep acts on exactly the eligible alerts, in list order:
\* the count it reports is the number of eligible alerts, the number of audit
\* entries appended and the number of alerts that changed to Mitigated; no
\* other alert changes.
C6_SweepCount ==
    [][ (lastOp'.op = "run_auto_sweep" /\ lastOp'.result = "complete") =>
          LET cnt == lastOp'.count
              n == Len(AUDIT_LOG)
          IN  /\ cnt = Cardinality(SweepEligible)
              /\ Len(AUDIT_LOG') = n + cnt
              /\ SubSeq(AUDIT_LOG', 1, n) = AUDIT_LOG
              /\ Mitigated(ALERTS') \ Mitigated(ALERTS) = SweepEligible
              /\ cnt = Cardinality(Mitigated(ALERTS') \ Mitigated(ALERTS))
              /\ DOMAIN ALERTS' = DOMAIN ALERTS
              /\ \A i \in DOMAIN ALERTS :
                    ALERTS'[i] = IF i \in SweepEligible
                                 THEN [ALERTS[i] EXCEPT !.status = "Mitigated"]
                                 ELSE ALERTS[i]
              /\ \A i \in SweepEligible :
                    LET k == Cardinality({j \in SweepEligible : j <= i})
                    IN  /\ AUDIT_LOG'[n + k].alert_id = ALERTS[i].alert_id
                        /\ AUDIT_LOG'[n + k].actor = "auto-sweep"
                        /\ AUDIT_LOG'[n + k].score = ALERTS[i].score ]_vars

\* a sweep over three alerts, one below the threshold and two at or above it,
\* reported 2
C6_Witness ==
    /\ lastOp.op = "run_auto_sweep"
    /\ lastOp.result = "complete"
    /\ lastOp.count = 2
    /\ Len(ALERTS) = 3
    /\ Len(AUDIT_LOG) = 2
    /\ AUDIT_LOG[1].actor = "auto-sweep"
    /\ AUDIT_LOG[2].actor = "auto-sweep"
    /\ Cardinality(Mitigated(ALERTS)) = 2
    /\ \E i \in DOMAIN ALERTS :
          ALERTS[i].score < auto_threshold /\ ALERTS[i].status = "New"

\* C7: each alert has at most one Open case that references it.
C7_OneOpenCasePerAlert ==
    \A i \in DOMAIN ALERTS :
        Cardinality({c \in DOMAIN CASES :
                        /\ CASES[c].alert_id = ALERTS[i].alert_id
                        /\ CASES[c].status = "Open"}) <= 1

\* C8: close_case on a case that is already Closed leaves the case list and
\* the audit log unchanged.
C8_CloseClosedRejected ==
    [][ ( /\ lastOp'.op = "close_case"
          /\ CASES[lastOp'.target].status = "Closed" ) =>
          /\ CASES' = CASES
          /\ AUDIT_LOG' = AUDIT_LOG ]_vars

\* C9: close_case on an Open case sets that case's status to Closed and
\* changes no other case and no alert.
C9_CloseCaseFrame ==
    [][ ( /\ lastOp'.op = "close_case"
          /\ CASES[lastOp'.target].status = "Open" ) =>
          /\ CASES' = [CASES EXCEPT ![lastOp'.target].status = "Closed"]
          /\ ALERTS' = ALERTS
          /\ EVENT_STORE' = EVENT_STORE ]_vars

\* a case was just closed; its alert is still Under Investigation with its
\* case_id, and another case is still Open
C9_Witness ==
    /\ lastOp.op = "close_case"
    /\ CASES[lastOp.target].status = "Closed"
    /\ UniqueAlertIds
    /\ \E i \in DOMAIN ALERTS :
          /\ ALERTS[i].alert_id = CASES[lastOp.target].alert_id
          /\ ALERTS[i].case_id = CASES[lastOp.target].case_id
          /\ ALERTS[i].status = "Under Investigation"
    /\ \E c \in DOMAIN CASES : CASES[c].status = "Open"
    /\ AUDIT_LOG[Len(AUDIT_LOG)].action = "case_closed"

\* C10: take_automated_action appends one audit entry of the given kind; a
\* remediation kind (isolate_endpoint, lock_account) sets the alert's status
\* to Mitigated from whatever status it had, any other kind leaves the alert
\* list unchanged.
C10_RemediationKinds ==
    [][ lastOp'.op = "take_automated_action" =>
          LET i == lastOp'.target
              kind == lastOp'.result
              n == Len(AUDIT_LOG')
          IN  /\ n = Len(AUDIT_LOG) + 1
              /\ SubSeq(AUDIT_LOG', 1, n - 1) = AUDIT_LOG
              /\ AUDIT_LOG'[n].action = kind
              /\ AUDIT_LOG'[n].alert_id = ALERTS[i].alert_id
              /\ kind \in {"isolate_endpoint", "lock_account"} =>
                    ALERTS' = [ALERTS EXCEPT ![i].status = "Mitigated"]
              /\ kind \notin {"isolate_endpoint", "lock_account"} =>
                    ALERTS' = ALERTS ]_vars

\* lock_account has mitigated one alert, and a later call of another kind
\* left an alert Under Investigation
C10_Witness ==
    /\ lastOp.op = "take_automated_action"
    /\ lastOp.result = "notify_manager"
    /\ ALERTS[lastOp.target].status = "Under Investigation"
    /\ AUDIT_LOG[Len(AUDIT_LOG)].action = "notify_manager"
    /\ \E k \in DOMAIN AUDIT_LOG, j \in DOMAIN ALERTS :
          /\ AUDIT_LOG[k].action = "lock_account"
          /\ AUDIT_LOG[k].alert_id = ALERTS[j].alert_id
          /\ ALERTS[j].status = "Mitigated"
          /\ UniqueAlertIds

\* C11: Assign on an alert that is not Mitigated sets assigned_to to the
\* chosen analyst and status to Triaged, whatever analyst the alert had
\* before (a second Assign overwrites it and the status is Triaged again);
\* every other alert and every case is as before, also when the dialog of
\* the handler is dismissed.
C11_AssignOverwrites ==
    [][ /\ lastOp'.op = "assign_alert"
           /\ ALERTS[lastOp'.target].status # "Mitigated"
           => /\ lastOp'.result \in MOCK_USERS
              /\ ALERTS' = [ALERTS EXCEPT
                               ![lastOp'.target].assigned_to = lastOp'.result,
                               ![lastOp'.target].status = "Triaged"]
              /\ CASES' = CASES
        /\ lastOp'.op = "assign_alert_ok"
           => ALERTS' = ALERTS /\ CASES' = CASES ]_vars

\* a second Assign has run on a Triaged alert: the first one is in the log,
\* the alert has no case and no remediation
C11_Witness ==
    /\ lastOp.op = "assign_alert"
    /\ UniqueAlertIds
    /\ LET a == ALERTS[lastOp.target]
       IN  /\ EntriesFor(AUDIT_LOG, a.alert_id, "assigned") # {}
           /\ \A k \in DOMAIN AUDIT_LOG :
                 AUDIT_LOG[k].alert_id = a.alert_id
                 => AUDIT_LOG[k].action = "assigned"
           /\ a.case_id = None
           /\ a.assigned_to = lastOp.result
           /\ a.status = "Triaged"
           /\ Len(ALERTS) > 1

\* the fields of a case that are a snapshot of its alert
Snapshot(c) ==
    [ alert_id |-> c.alert_id, user_id |-> c.user_id,
      user_name |-> c.user_name, dept |-> c.dept, score |-> c.score,
      assigned_to |-> c.assigned_to ]

\* C12: CreateCase on an alert without a case appends exactly one case,
\* Open, whose alert_id, user_id, user_name, dept, score and assigned_to are
\* the alert's at that moment, sets the alert's case_id to the new case's id
\* and its status to Under Investigation; and no step (a later Assign
\* included) changes the snapshot fields of a case that exists.
C12_CaseSnapshot ==
    [][ /\ lastOp'.op = "create_case_from_alert"
           /\ ALERTS[lastOp'.target].case_id = None
           => LET a == ALERTS[lastOp'.target]
                  ev == EVENT_STORE[a.event]
                  c == CASES'[Len(CASES')]
              IN  /\ Len(CASES') = Len(CASES) + 1
                  /\ SubSeq(CASES', 1, Len(CASES)) = CASES
                  /\ c.status = "Open"
                  /\ Snapshot(c) =
                        [ alert_id |-> a.alert_id, user_id |-> ev.user_id,
                          user_name |-> ev.user_name, dept |-> ev.dept,
                          score |-> a.score, assigned_to |-> a.assigned_to ]
                  /\ ALERTS' = [ALERTS EXCEPT
                                   ![lastOp'.target].case_id = c.case_id,
                                   ![lastOp'.target].status =
                                       "Under Investigation"]
        /\ \A k \in DOMAIN CASES :
              /\ k \in DOMAIN CASES'
              /\ Snapshot(CASES'[k]) = Snapshot(CASES[k]) ]_vars

\* a case made from an assigned alert, and the alert re-assigned since to
\* another analyst
C12_Witness ==
    /\ UniqueAlertIds
    /\ \E k \in DOMAIN CASES, i \in DOMAIN ALERTS :
          /\ CASES[k].alert_id = ALERTS[i].alert_id
          /\ ALERTS[i].case_id = CASES[k].case_id
          /\ CASES[k].assigned_to # None
          /\ ALERTS[i].assigned_to # None
          /\ ALERTS[i].assigned_to # CASES[k].assigned_to
          /\ ALERTS[i].status = "Triaged"

\* C13: a step that creates an alert appends exactly one alert; it
\* references the event it was made for (the new event when the step also
\* made one), its score is compute_risk of that event's features, it has no
\* analyst and no case, and the step adds no case.  The alert is New and the
\* audit log is as before, unless the tick that made the alert went on to
\* remediate it.
C13_AlertCreation ==
    [][ Len(ALERTS') # Len(ALERTS)
        => LET n == Len(ALERTS')
               a == ALERTS'[n]
           IN  /\ n = Len(ALERTS) + 1
               /\ SubSeq(ALERTS', 1, n - 1) = ALERTS
               /\ a.event \in DOMAIN EVENT_STORE'
               /\ EVENT_STORE' # EVENT_STORE => a.event = Len(EVENT_STORE')
               /\ a.score = compute_risk(EVENT_STORE'[a.event])
               /\ a.assigned_to = None
               /\ a.case_id = None
               /\ CASES' = CASES
               /\ IF lastOp'.op = "simulation_loop" /\ lastOp'.result = "taken"
                  THEN /\ a.status = "Mitigated"
                       /\ Len(AUDIT_LOG') = Len(AUDIT_LOG) + 1
                  ELSE /\ a.status = "New"
                       /\ AUDIT_LOG' = AUDIT_LOG ]_vars

\* the newest alert was made for an older event whose score is not that of
\* the newest event, next to cases and audit entries that exist
C13_Witness ==
    /\ Len(ALERTS) > 1
    /\ LET a == ALERTS[Len(ALERTS)]
       IN  /\ a.status = "New"
           /\ a.event < Len(EVENT_STORE)
           /\ a.score # compute_risk(EVENT_STORE[Len(EVENT_STORE)])
           /\ a.score > 0
           /\ \E j \in 1..(Len(ALERTS) - 1) : ALERTS[j].event = a.event
    /\ CASES # <<>>
    /\ AUDIT_LOG # <<>>

\* C14: no step removes an event, an alert or a case: each list keeps its
\* length or grows, every event stays as it is, and every alert and case
\* stays at its place with its identity (id, origin, creation time).
C14_NothingRemoved ==
    [][ /\ Len(EVENT_STORE') >= Len(EVENT_STORE)
        /\ SubSeq(EVENT_STORE', 1, Len(EVENT_STORE)) = EVENT_STORE
        /\ Len(ALERTS') >= Len(ALERTS)
        /\ \A i \in DOMAIN ALERTS :
              /\ ALERTS'[i].alert_id = ALERTS[i].alert_id
              /\ ALERTS'[i].event = ALERTS[i].event
              /\ ALERTS'[i].created_at = ALERTS[i].created_at
        /\ Len(CASES') >= Len(CASES)
        /\ \A k \in DOMAIN CASES :
              /\ CASES'[k].case_id = CASES[k].case_id
              /\ CASES'[k].alert_id = CASES[k].alert_id
              /\ CASES'[k].created_at = CASES[k].created_at ]_vars

\* full lists after a case was closed: the closed case is still there
C14_Witness ==
    /\ Len(ALERTS) = MaxAlerts
    /\ Len(CASES) = MaxCases
    /\ Len(EVENT_STORE) > 1
    /\ \E k \in DOMAIN CASES : CASES[k].status = "Closed"
    /\ \E k \in DOMAIN AUDIT_LOG : AUDIT_LOG[k].action = "case_closed"

\* C15: every entry of the audit log, whichever operation appended it,
\* carries the five fields timestamp, alert_id, action, actor and score.
C15_AuditEntryFields ==
    \A k \in DOMAIN AUDIT_LOG :
        {"timestamp", "alert_id", "action", "actor", "score"}
            \subseteq DOMAIN AUDIT_LOG[k]

\* C16: identifiers are unique: no two alerts share an alert_id, no two
\* cases a case_id and no two events an event_id, records made within one
\* clock reading included.
C16_UniqueIds ==
    /\ \A i, j \in DOMAIN ALERTS :
          ALERTS[i].alert_id = ALERTS[j].alert_id => i = j
    /\ \A i, j \in DOMAIN CASES :
          CASES[i].case_id = CASES[j].case_id => i = j
    /\ \A i, j \in DOMAIN EVENT_STORE :
          EVENT_STORE[i].event_id = EVENT_STORE[j].event_id => i = j

\* the remediation entries of the log for the alert id, from position n on
RemediationEntries(log, id, n) ==
    {k \in n..Len(log) : log[k].alert_id = id /\ log[k].action \in Remediation}

\* C17: remediation is atomic with its audit entry.  After every step each
\* Mitigated alert has a remediation entry for its alert_id; an alert that
\* becomes Mitigated in a step gets its entry in that same step; and a
\* remediation entry appended in a step belongs to an alert that is
\* Mitigated when the step ends.
C17_RemediationAtomic ==
    [][ /\ \A i \in Mitigated(ALERTS') :
              RemediationEntries(AUDIT_LOG', ALERTS'[i].alert_id, 1) # {}
        /\ \A i \in Mitigated(ALERTS') :
              (i \notin DOMAIN ALERTS \/ ALERTS[i].status # "Mitigated")
              => RemediationEntries(AUDIT_LOG', ALERTS'[i].alert_id,
                                    Len(AUDIT_LOG) + 1) # {}
        /\ \A k \in (Len(AUDIT_LOG) + 1)..Len(AUDIT_LOG') :
              AUDIT_LOG'[k].action \in Remediation
              => \E i \in Mitigated(ALERTS') :
                    ALERTS'[i].alert_id = AUDIT_LOG'[k].alert_id ]_vars

\* "Simulate Event" remediated its alert after the dialog, during which a
\* tick added an alert that was left alone
C17_Witness ==
    /\ lastOp.op = "manual_simulate_event_ok"
    /\ lastOp.result = "taken"
    /\ UniqueAlertIds
    /\ ALERTS[lastOp.target].status = "Mitigated"
    /\ Cardinality(RemediationEntries(AUDIT_LOG,
                                      ALERTS[lastOp.target].alert_id, 1)) = 1
    /\ \E j \in DOMAIN ALERTS :
          /\ j > lastOp.target
          /\ ALERTS[j].status = "New"
          /\ RemediationEntries(AUDIT_LOG, ALERTS[j].alert_id, 1) = {}

\* C18: one operation runs to completion before the next begins: while
\* assign_alert, create_case_from_alert or manual_simulate_event is blocked
\* in its dialog, between its writes to the alert and its audit append, no
\* simulation tick runs and no event or alert is added.
C18_RunToCompletion ==
    [][ pc.at \in {"assign_alert", "create_case_from_alert",
                   "manual_simulate_event"}
        => /\ lastOp'.op # "simulation_loop"
           /\ EVENT_STORE' = EVENT_STORE
           /\ Len(ALERTS') = Len(ALERTS) ]_vars

\* the step appends exactly one entry, of this kind and for this alert id
AppendsOne(kind, id) ==
    /\ Len(AUDIT_LOG') = Len(AUDIT_LOG) + 1
    /\ SubSeq(AUDIT_LOG', 1, Len(AUDIT_LOG)) = AUDIT_LOG
    /\ AUDIT_LOG'[Len(AUDIT_LOG')].action = kind
    /\ AUDIT_LOG'[Len(AUDIT_LOG')].alert_id = id

\* the handler whose completion writes entries of the kind
Recorder ==
    [ assigned |-> "assign_alert_ok",
      case_created |-> "create_case_from_alert_ok",
      case_closed |-> "close_case" ]

\* the step that completes a handler blocked in its dialog
Completion ==
    [ assign_alert |-> "assign_alert_ok",
      create_case_from_alert |-> "create_case_from_alert_ok" ]

\* C19: each assign, case creation and case closure is recorded once.  The
\* handler appends exactly one entry of its kind for the affected alert_id
\* when it completes; a handler that has written the alert completes by
\* nothing but that append; entries of these kinds are appended by nothing
\* else; and the case_created entries are as many as the cases made, less
\* the one whose handler has not completed yet.
C19_ActionsRecorded ==
    [][ /\ lastOp'.op = "assign_alert_ok"
           => AppendsOne("assigned", ALERTS[lastOp'.target].alert_id)
        /\ lastOp'.op = "create_case_from_alert_ok"
           => AppendsOne("case_created", ALERTS[lastOp'.target].alert_id)
        /\ lastOp'.op = "close_case"
           => AppendsOne("case_closed", CASES[lastOp'.target].alert_id)
        /\ lastOp'.op \in DOMAIN Completion
           => pc'.at = lastOp'.op /\ pc'.alert = lastOp'.target
        /\ pc.at \in DOMAIN Completion
           => \/ pc' = pc /\ ALERTS'[pc.alert] = ALERTS[pc.alert]
              \/ lastOp'.op = Completion[pc.at] /\ lastOp'.target = pc.alert
        /\ \A k \in (Len(AUDIT_LOG) + 1)..Len(AUDIT_LOG') :
              AUDIT_LOG'[k].action \in DOMAIN Recorder
              => lastOp'.op = Recorder[AUDIT_LOG'[k].action]
        /\ Cardinality({k \in DOMAIN AUDIT_LOG' :
                            AUDIT_LOG'[k].action = "case_created"})
           + (IF pc'.at = "create_case_from_alert" THEN 1 ELSE 0)
           = Len(CASES') ]_vars

\* an alert was assigned, made a case and its case closed: one entry each
C19_Witness ==
    /\ pc.at = "idle"
    /\ UniqueAlertIds
    /\ \E i \in DOMAIN ALERTS :
          /\ Cardinality(EntriesFor(AUDIT_LOG, ALERTS[i].alert_id,
                                    "assigned")) = 1
          /\ Cardinality(EntriesFor(AUDIT_LOG, ALERTS[i].alert_id,
                                    "case_created")) = 1
          /\ Cardinality(EntriesFor(AUDIT_LOG, ALERTS[i].alert_id,
                                    "case_closed")) = 1
          /\ ALERTS[i].assigned_to # None
          /\ ALERTS[i].case_id # None
    /\ Len(CASES) = 1
    /\ CASES[1].status = "Closed"

\* the features are in the ranges compute_risk expects
ValidFeatures(f) ==
    /\ 0 <= f.off_hours_activity /\ f.off_hours_activity <= OffOne
    /\ f.file_downloads_last_24h >= 0
    /\ -SentOne <= f.sentiment /\ f.sentiment <= SentOne
    /\ f.usb_activity \in {0, 1}
    /\ f.unusual_processes >= 0

\* the sum compute_risk forms before it clamps
RawScore(f) ==
    LET c == contributions(f)
    IN  c.off_hours_activity + c.file_downloads + c.sentiment
        + c.usb_activity + c.unusual_processes + c.anomaly_boost

\* C20: for valid features the score compute_risk returns is in [0, 1],
\* and the normalized downloads and the normalized process count are in
\* [0, 1].
C20_ScoreBounds ==
    probe.called /\ ValidFeatures(probe.features)
    => /\ 0 <= probe.score /\ probe.score <= ScoreOne
       /\ 0 <= downloads_norm(probe.features)
       /\ downloads_norm(probe.features) <= DownloadsOne
       /\ 0 <= unusual_norm(probe.features)
       /\ unusual_norm(probe.features) <= ProcessesOne

\* a call whose downloads and process count are above their caps and whose
\* sum is above 1.0: the score returned is 1.0
C20_Witness ==
    /\ probe.called
    /\ ValidFeatures(probe.features)
    /\ probe.features.file_downloads_last_24h > DownloadsOne
    /\ probe.features.unusual_processes > ProcessesOne
    /\ RawScore(probe.features) > ScoreOne
    /\ probe.score = ScoreOne

\* g is f with off_hours_activity, downloads or process count raised or
\* sentiment made more negative, and usb as it was
RaisedFrom(f, g) ==
    /\ g.off_hours_activity >= f.off_hours_activity
    /\ g.file_downloads_last_24h >= f.file_downloads_last_24h
    /\ g.unusual_processes >= f.unusual_processes
    /\ g.sentiment <= f.sentiment
    /\ g.usb_activity = f.usb_activity

\* C21: compute_risk is monotone: a call whose features are those of the
\* call before with off_hours_activity, downloads or process count raised,
\* or sentiment made more negative, returns a score that is not lower, the
\* boost thresholds included.
C21_Monotone ==
    /\ probe.called
    /\ probe.before.called
    /\ RaisedFrom(probe.before.features, probe.features)
    => probe.score >= probe.before.score

\* two calls across the boost threshold of 30 downloads, neither clamped:
\* the score rose by more than the weighted term alone
C21_Witness ==
    /\ probe.called
    /\ probe.before.called
    /\ RaisedFrom(probe.before.features, probe.features)
    /\ probe.before.features.file_downloads_last_24h = 30
    /\ probe.features.file_downloads_last_24h = 31
    /\ probe.features.sentiment < 0
    /\ probe.score < ScoreOne
    /\ probe.score - probe.before.score >= (12 * ScoreOne) \div 100

\* hundredths of 1.0 on the score scale
Hundredths(n) == (n * ScoreOne) \div 100

\* the weighted sum of the claim: 0.30 off_hours + 0.25 downloads (capped at
\* 50) - 0.20 sentiment (signed) + 0.12 usb + 0.13 processes (capped at 5)
WeightedBase(f) ==
    (Hundredths(30) * f.off_hours_activity) \div OffOne
    + (Hundredths(25) * (IF f.file_downloads_last_24h > 50
                         THEN 50 ELSE f.file_downloads_last_24h)) \div 50
    - (Hundredths(20) * f.sentiment) \div SentOne
    + (IF f.usb_activity = 1 THEN Hundredths(12) ELSE 0)
    + (Hundredths(13) * (IF f.unusual_processes > 5
                         THEN 5 ELSE f.unusual_processes)) \div 5

\* the three boosts of the claim, each on its own condition
DownloadBoost(f) ==
    IF f.file_downloads_last_24h > 30 THEN Hundredths(12) ELSE 0
AdverseBoost(f) ==
    IF 10 * f.off_hours_activity > 6 * OffOne
       /\ 10 * f.sentiment < -3 * SentOne
    THEN Hundredths(10) ELSE 0
UsbBoost(f) ==
    IF f.usb_activity = 1 /\ f.file_downloads_last_24h > 10
    THEN Hundredths(8) ELSE 0

Unclamped(f) ==
    WeightedBase(f) + DownloadBoost(f) + AdverseBoost(f) + UsbBoost(f)

\* off_hours 0.8, downloads 40, sentiment -0.8, usb 1, processes 3
SaturatingFeatures ==
    [ off_hours_activity |-> (8 * OffOne) \div 10,
      file_downloads_last_24h |-> 40,
      sentiment |-> -((8 * SentOne) \div 10),
      usb_activity |-> 1,
      unusual_processes |-> 3 ]

\* C22: the score is the weighted sum plus the three boosts, clamped to
\* [0, 1]; each boost depends on its own condition only, with strict
\* comparisons at 30 and 10 downloads, off_hours 0.6 and sentiment -0.3;
\* for off_hours 0.8, downloads 40, sentiment -0.8, usb 1, processes 3 the
\* unclamped sum is above 1 and the score is exactly 1.0.
C22_ScoreFormula ==
    probe.called
    => /\ probe.score =
             (IF Unclamped(probe.features) < 0 THEN 0
              ELSE IF Unclamped(probe.features) > ScoreOne THEN ScoreOne
              ELSE Unclamped(probe.features))
       /\ probe.contributions.anomaly_boost =
             DownloadBoost(probe.features) + AdverseBoost(probe.features)
             + UsbBoost(probe.features)
       /\ probe.features = SaturatingFeatures
          => Unclamped(probe.features) > ScoreOne /\ probe.score = ScoreOne

\* compute_risk was called on the saturating example
C22_Witness ==
    /\ probe.called
    /\ probe.features = SaturatingFeatures
    /\ probe.score = ScoreOne
    /\ probe.contributions.anomaly_boost = Hundredths(30)

Judged(alert, answer) ==
    IF (answer = "yes") = (alert.score > Hundredths(60)) THEN 1 ELSE 0

\* C24: a drill awards points to one analyst, chosen once when the drill
\* ends: the count of correct judgments grows by one with each answer that
\* equals the ground truth score > 0.60 (a score of exactly 0.60 is not a
\* true positive); the analyst's points grow by 10 times that count, the
\* analyst gets the badge if and only if all judgments were correct, and
\* every other analyst's points and badges, and everybody's at every other
\* step, are unchanged.
C24_DrillAward ==
    [][ /\ lastOp'.op = "start_sandbox" => pc'.correct = 0
        /\ lastOp'.op = "sandbox_triage"
           => pc'.correct = pc.correct
                            + Judged(ALERTS[lastOp'.target], lastOp'.result)
        /\ lastOp'.op = "sandbox_finish"
           => LET n == pc.correct
                       + Judged(ALERTS[lastOp'.target], lastOp'.result)
              IN  \E a \in MOCK_USERS :
                     /\ USER_POINTS' = [USER_POINTS EXCEPT ![a] = @ + 10 * n]
                     /\ BADGES' =
                           [BADGES EXCEPT
                               ![a] = IF n = SandboxSize
                                      THEN @ \cup {"Sandbox Master"} ELSE @]
        /\ lastOp'.op # "sandbox_finish"
           => USER_POINTS' = USER_POINTS /\ BADGES' = BADGES ]_vars

\* a drill with an alert of score exactly 0.60 and one above it ended with
\* all five judgments correct: 50 points and the badge for one analyst,
\* nothing for the other
C24_Witness ==
    /\ lastOp.op = "sandbox_finish"
    /\ lastOp.count = SandboxSize
    /\ \E i \in DOMAIN ALERTS : ALERTS[i].score = Hundredths(60)
    /\ \E i \in DOMAIN ALERTS : ALERTS[i].score > Hundredths(60)
    /\ \E a \in MOCK_USERS :
          /\ USER_POINTS[a] = 10 * SandboxSize
          /\ BADGES[a] = {"Sandbox Master"}
          /\ \A b \in MOCK_USERS \ {a} :
                USER_POINTS[b] = 0 /\ BADGES[b] = {}

\* the fields of an alert that are fixed when it is created
Created(a) ==
    [ alert_id |-> a.alert_id, event |-> a.event, score |-> a.score,
      contributions |-> a.contributions, created_at |-> a.created_at ]

\* the handlers that can end in take_automated_action
RemediationOps ==
    {"simulation_loop", "manual_simulate_event_ok", "autoremediate",
     "run_auto_sweep"}

\* C25: an alert's alert_id, event reference, score, contributions and
\* created_at never change after it was created.  Its status is written
\* only by assign (Triaged), case creation (Under Investigation) and
\* remediation (Mitigated), its assigned_to only by assign and its case_id
\* only by case creation; so the score of every remediation entry appended
\* is the score its alert was created with.
C25_AlertFrame ==
    [][ /\ \A i \in DOMAIN ALERTS :
              /\ i \in DOMAIN ALERTS'
              /\ Created(ALERTS'[i]) = Created(ALERTS[i])
              /\ ALERTS'[i].score = compute_risk(EVENT_STORE[ALERTS[i].event])
              /\ ALERTS'[i].assigned_to # ALERTS[i].assigned_to
                 => lastOp'.op = "assign_alert"
              /\ ALERTS'[i].case_id # ALERTS[i].case_id
                 => lastOp'.op = "create_case_from_alert"
              /\ ALERTS'[i].status # ALERTS[i].status
                 => \/ /\ lastOp'.op = "assign_alert"
                       /\ ALERTS'[i].status = "Triaged"
                    \/ /\ lastOp'.op = "create_case_from_alert"
                       /\ ALERTS'[i].status = "Under Investigation"
                    \/ /\ lastOp'.op \in RemediationOps
                       /\ ALERTS'[i].status = "Mitigated"
        /\ \A k \in (Len(AUDIT_LOG) + 1)..Len(AUDIT_LOG') :
              AUDIT_LOG'[k].action \in Remediation
              => \E i \in DOMAIN ALERTS' :
                    /\ ALERTS'[i].alert_id = AUDIT_LOG'[k].alert_id
                    /\ AUDIT_LOG'[k].score = ALERTS'[i].score
                    /\ AUDIT_LOG'[k].score
                       = compute_risk(EVENT_STORE'[ALERTS'[i].event]) ]_vars

\* an alert that was assigned, made a case and then remediated
C25_Witness ==
    /\ UniqueAlertIds
    /\ lastOp.op \in RemediationOps
    /\ \E i \in DOMAIN ALERTS :
          /\ ALERTS[i].assigned_to # None
          /\ ALERTS[i].case_id # None
          /\ ALERTS[i].status = "Mitigated"
          /\ ALERTS[i].score = compute_risk(EVENT_STORE[ALERTS[i].event])
          /\ \E k \in DOMAIN AUDIT_LOG :
                /\ AUDIT_LOG[k].action \in Remediation
                /\ AUDIT_LOG[k].alert_id = ALERTS[i].alert_id
                /\ AUDIT_LOG[k].score = ALERTS[i].score

\* what the claim makes of each word: whether it is a lexicon word once
\* lower-cased and stripped of surrounding punctuation, and its polarity in
\* tenths
Polarity ==
    (<<"H","a","p","p","y">> :> [found |-> TRUE, tenths |-> 8]) @@
    (<<"H","A","T","E","!">> :> [found |-> TRUE, tenths |-> -10]) @@
    (<<"o","k",",">> :> [found |-> TRUE, tenths |-> 1]) @@
    (<<"t","e","a","m">> :> [found |-> FALSE, tenths |-> 0]) @@
    (<<".",".",".">> :> [found |-> FALSE, tenths |-> 0]) @@
    (<<"?","S","t","r","e","s","s","e","d",";",":">>
        :> [found |-> TRUE, tenths |-> -8]) @@
    (<<"o",".","k">> :> [found |-> FALSE, tenths |-> 0]) @@
    (<<"t","h","a","n","k","s">> :> [found |-> TRUE, tenths |-> 5])

\* the number of words of the text found in the lexicon, and the sum of
\* their polarities
RECURSIVE FoundCount(_)
FoundCount(text) ==
    IF text = <<>> THEN 0
    ELSE (IF Polarity[Head(text)].found THEN 1 ELSE 0) + FoundCount(Tail(text))

RECURSIVE FoundSum(_)
FoundSum(text) ==
    IF text = <<>> THEN 0
    ELSE (IF Polarity[Head(text)].found THEN Polarity[Head(text)].tenths
          ELSE 0) + FoundSum(Tail(text))

TickOutcome(i) ==
    IF auto_action_enabled /\ ALERTS'[i].score >= auto_threshold
    THEN /\ ALERTS'[i].status = "Mitigated"
         /\ Len(AUDIT_LOG') = Len(AUDIT_LOG) + 1
         /\ SubSeq(AUDIT_LOG', 1, Len(AUDIT_LOG)) = AUDIT_LOG
         /\ AUDIT_LOG'[Len(AUDIT_LOG')].alert_id = ALERTS'[i].alert_id
         /\ AUDIT_LOG'[Len(AUDIT_LOG')].actor = "auto-sim"
         /\ AUDIT_LOG'[Len(AUDIT_LOG')].action \in Remediation
    ELSE /\ ALERTS'[i].status = "New"
         /\ AUDIT_LOG' = AUDIT_LOG

C28_CaseImpliesInvestigated ==
    \A i \in DOMAIN ALERTS :
        ALERTS[i].case_id # None
        => ALERTS[i].status \in {"Under Investigation", "Mitigated"}

\* C28 as amended: an alert that has a case is never New; it is Under
\* Investigation or Mitigated, or Triaged with an analyst assigned (the
\* state "Assign to Analyst" leaves it in after the case was created).
C28_CaseNeverNew ==
    \A i \in DOMAIN ALERTS :
        ALERTS[i].case_id # None
        => \/ ALERTS[i].status \in {"Under Investigation", "Mitigated"}
           \/ /\ ALERTS[i].status = "Triaged"
              /\ ALERTS[i].assigned_to # None

\* an alert was given a case and then assigned: it has a case and is Triaged
C28_Witness ==
    /\ lastOp.op = "assign_alert"
    /\ lastOp.target \in DOMAIN ALERTS
    /\ ALERTS[lastOp.target].case_id # None
    /\ ALERTS[lastOp.target].status = "Triaged"
    /\ \E c \in DOMAIN CASES :
          CASES[c].case_id = ALERTS[lastOp.target].case_id

AlertStatuses == {"New", "Triaged", "Under Investigation", "Mitigated"}

CaseStatuses == {"Open", "Closed"}

\* C29: every alert's status is New, Triaged, Under Investigation or
\* Mitigated and every case's status is Open or Closed; no operation, closing
\* the alert's case included, sets an alert's status to Closed.
C29_StatusDomains ==
    /\ \A i \in DOMAIN ALERTS : /\ ALERTS[i].status \in AlertStatuses
                                /\ ALERTS[i].status # "Closed"
    /\ \A c \in DOMAIN CASES : CASES[c].status \in CaseStatuses

\* a case was just closed and the alert that links to it is Mitigated, while
\* another alert is still New
C29_Witness ==
    /\ lastOp.op = "close_case"
    /\ CASES[lastOp.target].status = "Closed"
    /\ \E i \in DOMAIN ALERTS :
          /\ ALERTS[i].case_id # None
          /\ ALERTS[i].case_id = CASES[lastOp.target].case_id
          /\ ALERTS[i].status = "Mitigated"
    /\ \E i \in DOMAIN ALERTS : ALERTS[i].status = "New"

\* the last operation was a sweep that ran with the gate enabled
Swept(op) == op.op = "run_auto_sweep" /\ op.result = "complete"

\* C30: a sweep that follows a sweep directly, with the gate enabled and the
\* threshold unchanged, reports 0 actions, appends no audit entry and changes
\* no alert; after any sweep no alert with score >= threshold is New or
\* Triaged.
C30_SweepIdempotent ==
    [][ Swept(lastOp')
        => /\ \A i \in DOMAIN ALERTS' :
                 ALERTS'[i].score >= auto_threshold'
                 => ALERTS'[i].status \notin {"New", "Triaged"}
           /\ Swept(lastOp)
              => /\ lastOp'.count = 0
                 /\ AUDIT_LOG' = AUDIT_LOG
                 /\ ALERTS' = ALERTS ]_vars

\* a sweep has just reported 0 actions on a list where an earlier sweep
\* isolated an alert (the last audit entry is the sweep's) and an alert
\* below the threshold is still New
C30_Witness ==
    /\ Swept(lastOp)
    /\ lastOp.count = 0
    /\ AUDIT_LOG # <<>>
    /\ AUDIT_LOG[Len(AUDIT_LOG)].actor = "auto-sweep"
    /\ \E i \in DOMAIN ALERTS :
          /\ ALERTS[i].status = "Mitigated"
          /\ ALERTS[i].score >= auto_threshold
          /\ ALERTS[i].alert_id = AUDIT_LOG[Len(AUDIT_LOG)].alert_id
    /\ \E i \in DOMAIN ALERTS :
          /\ ALERTS[i].status = "New"
          /\ ALERTS[i].score < auto_threshold
====
